---- MODULE Spec2Model ----
(***************************************************************************)
(* wasm-isolate: reduce a WebAssembly module to the items reachable from   *)
(* the selected functions.  The model follows src/src/main.rs: ingest of   *)
(* the parser's payloads, the reachability worklist, the relocation map    *)
(* and the section-by-section emitter.  A Rust panic (todo!(), expect(),   *)
(* an out-of-bounds index) ends the run in pc = "panicked".                *)
(***************************************************************************)
EXTENDS Integers, Sequences, FiniteSets, TLC

VARIABLES
    buf,           \* the input file as read into `buf`, in parsed form
    pass,          \* 1 for the run on the input, 2 for a run on that run's output
    first_out,     \* what the first run wrote, kept for the second run
    payloads,      \* what parser.parse_all(&buf) has still to yield
    funcs,         \* args.funcs: the selected function indices
    pc,            \* "ingest" | "reach" | "relocate" | "emit" | "done" | "panicked"
    ir,            \* main's ingest locals (types, func_types, imports, sections, ...)
    work_queue,    \* Vec<WorkItem>
    all_uses,      \* Uses
    relocations,   \* HashMap<Relocation, u32>
    next_section,  \* position of the emitter's `for section in sections`
    out,           \* the sections handed to out.section(..), in order
    written        \* number of fs::write calls made on args.out

vars == <<buf, pass, first_out, payloads, funcs, pc, ir, work_queue, all_uses, relocations,
          next_section, out, written>>

(***************************************************************************)
(* Bounds of the checked inputs.                                           *)
(***************************************************************************)
\* selected indices range over 0..MaxIdx; the modules have 2 to 4 functions
MaxIdx == 3
\* the selection list args.funcs has 1..MaxSeeds entries
MaxSeeds == 2

(***************************************************************************)
(* Sequence helpers.                                                       *)
(***************************************************************************)
Range(s) == {s[i] : i \in DOMAIN s}

Contains(s, x) == \E i \in DOMAIN s : s[i] = x

RECURSIVE Flatten(_)
Flatten(ss) == IF ss = <<>> THEN <<>> ELSE Head(ss) \o Flatten(Tail(ss))

\* 0-based index of a Rust slice: v[i]
At(v, i) == v[i + 1]

InBounds(v, i) == i >= 0 /\ i < Len(v)

(***************************************************************************)
(* wasmparser value types.  A reference type carries a heap type that is   *)
(* abstract (funcref, externref, ...) or a concrete module type index.     *)
(***************************************************************************)
I32 == [vt |-> "i32", heap |-> "none", idx |-> 0]
FuncRef == [vt |-> "ref", heap |-> "abstract", idx |-> 0]
RefT(i) == [vt |-> "ref", heap |-> "concrete", idx |-> i]

\* CompositeInnerType
FuncTy(ps, rs) == [ct |-> "func", params |-> ps, results |-> rs, fields |-> <<>>]
StructTy(fs) == [ct |-> "struct", params |-> <<>>, results |-> <<>>, fields |-> fs]
ArrayTy(f) == [ct |-> "array", params |-> <<>>, results |-> <<>>, fields |-> <<f>>]

\* StorageType: I8 | I16 | Val(ValType)
I8 == [st |-> "i8", val |-> I32]
StVal(v) == [st |-> "val", val |-> v]

\* Operator, with at most two immediates
Op(o, x, y) == [op |-> o, a |-> x, b |-> y]

(***************************************************************************)
(* struct Uses and its impl.                                               *)
(***************************************************************************)
UsesDefault ==
    [live_types |-> <<>>, live_funcs |-> <<>>, live_tables |-> <<>>,
     live_globals |-> <<>>, live_memories |-> <<>>, live_datas |-> <<>>,
     live_elems |-> <<>>, live_tags |-> <<>>]

single_type(idx) == [UsesDefault EXCEPT !.live_types = <<idx>>]
single_func(idx) == [UsesDefault EXCEPT !.live_funcs = <<idx>>]
single_table(idx) == [UsesDefault EXCEPT !.live_tables = <<idx>>]
single_global(idx) == [UsesDefault EXCEPT !.live_globals = <<idx>>]
single_memory(idx) == [UsesDefault EXCEPT !.live_memories = <<idx>>]
single_data(idx) == [UsesDefault EXCEPT !.live_datas = <<idx>>]
single_elem(idx) == [UsesDefault EXCEPT !.live_elems = <<idx>>]
single_tag(idx) == [UsesDefault EXCEPT !.live_tags = <<idx>>]

\* vec.sort(): insertion of x into an ascending sequence
RECURSIVE InsertSorted(_, _)
InsertSorted(s, x) ==
    IF s = <<>> THEN <<x>>
    ELSE IF x <= Head(s) THEN <<x>> \o s
    ELSE <<Head(s)>> \o InsertSorted(Tail(s), x)

RECURSIVE Sort(_)
Sort(s) == IF s = <<>> THEN <<>> ELSE InsertSorted(Sort(Tail(s)), Head(s))

\* vec.dedup(): drop an element equal to its predecessor
RECURSIVE Dedup(_)
Dedup(s) ==
    IF Len(s) <= 1 THEN s
    ELSE IF s[1] = s[2] THEN Dedup(Tail(s))
    ELSE <<s[1]>> \o Dedup(Tail(s))

\* append_and_dedup without the vec.dedup()
append_and_sort(vec, other) == Sort(vec \o other)

\* lines 698-702: vec.append(other); vec.sort(); vec.dedup()
append_and_dedup(vec, other) == Dedup(Sort(vec \o other))

merge(self, other) ==
    [live_types |-> append_and_dedup(self.live_types, other.live_types),
     live_funcs |-> append_and_dedup(self.live_funcs, other.live_funcs),
     live_tables |-> append_and_dedup(self.live_tables, other.live_tables),
     live_globals |-> append_and_dedup(self.live_globals, other.live_globals),
     live_memories |-> append_and_dedup(self.live_memories, other.live_memories),
     live_datas |-> append_and_dedup(self.live_datas, other.live_datas),
     live_elems |-> append_and_dedup(self.live_elems, other.live_elems),
     live_tags |-> append_and_dedup(self.live_tags, other.live_tags)]

\* Uses::all and the `for .. { res.merge(f(x)) }` loops: merge left to right
RECURSIVE MergeAll(_)
MergeAll(useses) ==
    IF useses = <<>> THEN UsesDefault
    ELSE merge(MergeAll(SubSeq(useses, 1, Len(useses) - 1)), useses[Len(useses)])

(***************************************************************************)
(* The use functions.                                                      *)
(***************************************************************************)
get_heaptype_uses(heap, idx) ==
    IF heap = "concrete" THEN single_type(idx) ELSE UsesDefault

get_reftype_uses(ty) == get_heaptype_uses(ty.heap, ty.idx)

get_valtype_uses(ty) ==
    IF ty.vt = "ref" THEN get_reftype_uses(ty) ELSE UsesDefault

get_storagetype_uses(ty) ==
    IF ty.st = "val" THEN get_valtype_uses(ty.val) ELSE UsesDefault

get_fieldtype_uses(ty) == get_storagetype_uses(ty)

get_structtype_uses(ty) ==
    MergeAll([i \in DOMAIN ty.fields |-> get_fieldtype_uses(ty.fields[i])])

get_arraytype_uses(ty) == get_fieldtype_uses(ty.fields[1])

get_functype_uses(ty) ==
    MergeAll([i \in DOMAIN ty.params |-> get_valtype_uses(ty.params[i])]
             \o [i \in DOMAIN ty.results |-> get_valtype_uses(ty.results[i])])

get_type_uses(ty) ==
    CASE ty.ct = "func" -> get_functype_uses(ty)
      [] ty.ct = "array" -> get_arraytype_uses(ty)
      [] ty.ct = "struct" -> get_structtype_uses(ty)

get_tabletype_uses(ty) == get_reftype_uses(ty)

get_globaltype_uses(ty) == get_valtype_uses(ty)

get_memarg_uses(memory) == single_memory(memory)

\* BlockType::FuncType(ty) is the only block type the modelled operators carry
get_blocktype_uses(ty) == single_type(ty)

get_instr_uses(instr) ==
    CASE instr.op = "call" -> single_func(instr.a)
      [] instr.op = "return_call" -> single_func(instr.a)
      [] instr.op = "ref_func" -> single_func(instr.a)
      [] instr.op = "call_indirect" ->
            [UsesDefault EXCEPT !.live_types = <<instr.a>>, !.live_tables = <<instr.b>>]
      [] instr.op = "block" -> get_blocktype_uses(instr.a)
      [] instr.op = "struct_new" -> single_type(instr.a)
      [] instr.op = "ref_null" -> get_heaptype_uses("concrete", instr.a)
      [] instr.op = "global_get" -> single_global(instr.a)
      [] instr.op = "global_set" -> single_global(instr.a)
      [] instr.op = "i32_load" -> get_memarg_uses(instr.a)
      [] instr.op = "memory_size" -> single_memory(instr.a)
      [] instr.op = "table_get" -> single_table(instr.a)
      [] instr.op = "memory_init" ->
            [UsesDefault EXCEPT !.live_datas = <<instr.a>>, !.live_memories = <<instr.b>>]
      [] instr.op = "data_drop" -> single_data(instr.a)
      [] instr.op = "table_init" ->
            [UsesDefault EXCEPT !.live_elems = <<instr.a>>, !.live_tables = <<instr.b>>]
      [] instr.op = "elem_drop" -> single_elem(instr.a)
      [] instr.op = "throw" -> single_tag(instr.a)
      [] OTHER -> UsesDefault

(***************************************************************************)
(* Ingest: one payload of parser.parse_all(&buf) per step.                  *)
(***************************************************************************)
IrInit ==
    [types |-> <<>>,
     num_imported_functions |-> 0, num_imported_tables |-> 0,
     num_imported_memories |-> 0, num_imported_globals |-> 0,
     num_imported_tags |-> 0,
     func_types |-> <<>>, table_types |-> <<>>, memory_types |-> <<>>,
     global_types |-> <<>>, tag_types |-> <<>>,
     current_func |-> 0, first_func |-> TRUE,
     imports |-> <<>>, defined_tables |-> <<>>, defined_globals |-> <<>>,
     exports |-> <<>>, has_start |-> FALSE, start_idx |-> 0,
     elems |-> <<>>, defined_funcs |-> <<>>, datas |-> <<>>,
     sections |-> <<>>]

\* Section::raw(id, bytes)
SectionRaw(id, bytes) == [s |-> "Passthrough", id |-> id, data |-> bytes]

Section(name) == [s |-> name]

\* the `match import.ty` of one import, lines 84-106
IngestImport(r, import) ==
    CASE import.kind = "func" ->
            [r EXCEPT !.num_imported_functions = @ + 1,
                      !.func_types = Append(@, import.type_idx),
                      !.imports = Append(@, import)]
      [] import.kind = "table" ->
            [r EXCEPT !.num_imported_tables = @ + 1,
                      !.table_types = Append(@, import.ty),
                      !.imports = Append(@, import)]
      [] import.kind = "memory" ->
            [r EXCEPT !.num_imported_memories = @ + 1,
                      !.memory_types = Append(@, import.ty),
                      !.imports = Append(@, import)]
      [] import.kind = "global" ->
            [r EXCEPT !.num_imported_globals = @ + 1,
                      !.global_types = Append(@, import.ty),
                      !.imports = Append(@, import)]
      [] import.kind = "tag" ->
            [r EXCEPT !.num_imported_tags = @ + 1,
                      !.tag_types = Append(@, import.type_idx),
                      !.imports = Append(@, import)]

RECURSIVE IngestImports(_, _)
IngestImports(r, is) ==
    IF is = <<>> THEN r ELSE IngestImports(IngestImport(r, Head(is)), Tail(is))

\* CodeSectionEntry, lines 178-199: the function index this body gets
EntryFunc(r) == IF r.first_func THEN r.current_func ELSE r.current_func + 1

\* the payload makes main panic: func_types[current_func] past the end
IngestPanics(r, payload) ==
    payload.p = "CodeEntry" /\ ~InBounds(r.func_types, EntryFunc(r))

\* CustomSection ingest that records no custom section at all
IngestCustomDropAll(r, payload) == r

\* CustomSection ingest that records the "name" section like any other
IngestCustomKeepName(r, payload) ==
    [r EXCEPT !.sections = Append(@, SectionRaw(0, payload))]

\* Payload::CustomSection, lines 201-206
IngestCustom(r, payload) ==
    IF payload.name = "name" THEN r
    ELSE [r EXCEPT !.sections = Append(@, SectionRaw(0, payload))]

\* the body of `match payload?`, lines 68-209
IngestPayload(r, payload) ==
    CASE payload.p = "Type" ->
            [r EXCEPT !.sections = Append(@, SectionRaw(1, payload)),
                      !.types = @ \o Flatten(payload.recgroups)]
      [] payload.p = "Import" ->
            IngestImports([r EXCEPT !.sections = Append(@, Section("Import"))],
                          payload.imports)
      [] payload.p = "Function" ->
            [r EXCEPT !.sections = Append(@, Section("Function")),
                      !.func_types = @ \o payload.type_idxs]
      [] payload.p = "Table" ->
            [r EXCEPT !.sections = Append(@, Section("Table")),
                      !.table_types = @ \o [i \in DOMAIN payload.tables |->
                                               payload.tables[i].ty],
                      !.defined_tables = @ \o payload.tables]
      [] payload.p = "Memory" ->
            [r EXCEPT !.sections = Append(@, Section("Memory")),
                      !.memory_types = @ \o payload.mems]
      [] payload.p = "Tag" ->
            [r EXCEPT !.sections = Append(@, SectionRaw(13, payload))]
      [] payload.p = "Global" ->
            [r EXCEPT !.sections = Append(@, Section("Global")),
                      !.global_types = @ \o [i \in DOMAIN payload.globals |->
                                                payload.globals[i].ty],
                      !.defined_globals = @ \o payload.globals]
      [] payload.p = "Export" ->
            [r EXCEPT !.sections = Append(@, Section("Export")),
                      !.exports = @ \o payload.exports]
      [] payload.p = "Start" ->
            [r EXCEPT !.sections = Append(@, Section("Start")),
                      !.has_start = TRUE, !.start_idx = payload.func]
      [] payload.p = "Element" ->
            [r EXCEPT !.sections = Append(@, Section("Element")),
                      !.elems = @ \o payload.elems]
      [] payload.p = "DataCount" ->
            [r EXCEPT !.sections = Append(@, SectionRaw(12, payload))]
      [] payload.p = "Data" ->
            [r EXCEPT !.sections = Append(@, Section("Data")),
                      !.datas = @ \o payload.datas]
      [] payload.p = "CodeStart" ->
            [r EXCEPT !.sections = Append(@, Section("Code")),
                      !.current_func = r.num_imported_functions]
      [] payload.p = "CodeEntry" ->
            [r EXCEPT !.first_func = FALSE,
                      !.current_func = EntryFunc(r),
                      !.defined_funcs = Append(@,
                          [type_idx |-> At(r.func_types, EntryFunc(r)),
                           locals |-> payload.locals,
                           instructions |-> payload.instructions])]
      [] payload.p = "Custom" -> IngestCustom(r, payload)
      [] OTHER -> r

Ingest ==
    /\ pc = "ingest"
    /\ payloads # <<>>
    /\ payloads' = Tail(payloads)
    /\ IF IngestPanics(ir, Head(payloads))
       THEN pc' = "panicked" /\ ir' = ir
       ELSE pc' = pc /\ ir' = IngestPayload(ir, Head(payloads))
    /\ UNCHANGED <<buf, pass, first_out, funcs, work_queue, all_uses, relocations, next_section, out, written>>

(***************************************************************************)
(* Reachability: the worklist loop, lines 216-310.                          *)
(***************************************************************************)
WorkItem(k, i) == [kind |-> k, idx |-> i]

\* Seed with the start function queued as well
SeedWithStart ==
    /\ pc = "ingest"
    /\ payloads = <<>>
    /\ work_queue' = [i \in DOMAIN funcs |-> WorkItem("Func", funcs[i])]
                     \o (IF ir.has_start THEN <<WorkItem("Func", ir.start_idx)>> ELSE <<>>)
    /\ all_uses' = UsesDefault
    /\ pc' = "reach"
    /\ UNCHANGED <<buf, pass, first_out, payloads, funcs, ir, relocations, next_section, out, written>>

\* lines 216-221: every selected function is queued; nothing is live yet
Seed ==
    /\ pc = "ingest"
    /\ payloads = <<>>
    /\ work_queue' = [i \in DOMAIN funcs |-> WorkItem("Func", funcs[i])]
    /\ all_uses' = UsesDefault
    /\ pc' = "reach"
    /\ UNCHANGED <<buf, pass, first_out, payloads, funcs, ir, relocations, next_section, out, written>>

\* the `match work` panics: an index past the end of its vector, or todo!()
WorkPanics(r, work) ==
    CASE work.kind = "Type" -> ~InBounds(r.types, work.idx)
      [] work.kind = "Func" ->
            /\ ~(work.idx < r.num_imported_functions)
            /\ ~InBounds(r.defined_funcs, work.idx - r.num_imported_functions)
      [] work.kind = "Table" -> ~InBounds(r.table_types, work.idx)
      [] work.kind = "Global" -> ~InBounds(r.global_types, work.idx)
      [] work.kind = "Memory" -> FALSE
      [] work.kind = "Data" -> TRUE
      [] work.kind = "Elem" -> TRUE
      [] work.kind = "Tag" -> TRUE

\* WorkItem::Func(idx), lines 232-249
FuncUses(r, idx) ==
    IF idx < r.num_imported_functions
    THEN single_func(idx)
    ELSE LET func == At(r.defined_funcs, idx - r.num_imported_functions)
         IN  MergeAll(<<single_func(idx), single_type(func.type_idx)>>
                 \o [i \in DOMAIN func.locals |-> get_valtype_uses(func.locals[i][2])]
                 \o [i \in DOMAIN func.instructions |->
                        get_instr_uses(func.instructions[i])])

\* `let new_uses = match work`, lines 226-264
NewUses(r, work) ==
    CASE work.kind = "Type" ->
            merge(single_type(work.idx), get_type_uses(At(r.types, work.idx)))
      [] work.kind = "Func" -> FuncUses(r, work.idx)
      [] work.kind = "Table" ->
            merge(single_table(work.idx),
                  get_tabletype_uses(At(r.table_types, work.idx)))
      [] work.kind = "Global" ->
            merge(single_global(work.idx),
                  get_globaltype_uses(At(r.global_types, work.idx)))
      [] work.kind = "Memory" -> single_memory(work.idx)

\* one `for idx in &new_uses.live_X { if !all_uses.live_X.contains(idx) .. }`
Unused(kind, new, live) ==
    LET Fresh(idx) == ~Contains(live, idx)
        sel == SelectSeq(new, Fresh)
    IN  [i \in DOMAIN sel |-> WorkItem(kind, sel[i])]

\* PushUnused without the loop over new_uses.live_types
PushUnusedNoTypes(queue, new_uses, uses) ==
    queue
    \o Unused("Func", new_uses.live_funcs, uses.live_funcs)
    \o Unused("Table", new_uses.live_tables, uses.live_tables)
    \o Unused("Global", new_uses.live_globals, uses.live_globals)
    \o Unused("Memory", new_uses.live_memories, uses.live_memories)
    \o Unused("Data", new_uses.live_datas, uses.live_datas)
    \o Unused("Elem", new_uses.live_elems, uses.live_elems)
    \o Unused("Tag", new_uses.live_tags, uses.live_tags)

\* PushUnused that replaces the queue by the new items, dropping what was
\* still waiting in it
PushUnusedReplace(queue, new_uses, uses) ==
    Unused("Type", new_uses.live_types, uses.live_types)
    \o Unused("Func", new_uses.live_funcs, uses.live_funcs)
    \o Unused("Table", new_uses.live_tables, uses.live_tables)
    \o Unused("Global", new_uses.live_globals, uses.live_globals)
    \o Unused("Memory", new_uses.live_memories, uses.live_memories)
    \o Unused("Data", new_uses.live_datas, uses.live_datas)
    \o Unused("Elem", new_uses.live_elems, uses.live_elems)
    \o Unused("Tag", new_uses.live_tags, uses.live_tags)

\* every item of new_uses, live already or not
AllOf(kind, new) == [i \in DOMAIN new |-> WorkItem(kind, new[i])]

\* PushUnused without the `if !all_uses.live_*.contains(idx)` tests
PushAll(queue, new_uses, uses) ==
    queue
    \o AllOf("Type", new_uses.live_types)
    \o AllOf("Func", new_uses.live_funcs)
    \o AllOf("Table", new_uses.live_tables)
    \o AllOf("Global", new_uses.live_globals)
    \o AllOf("Memory", new_uses.live_memories)
    \o AllOf("Data", new_uses.live_datas)
    \o AllOf("Elem", new_uses.live_elems)
    \o AllOf("Tag", new_uses.live_tags)

\* lines 267-307: push all unused things to the queue
PushUnused(queue, new_uses, uses) ==
    queue
    \o Unused("Type", new_uses.live_types, uses.live_types)
    \o Unused("Func", new_uses.live_funcs, uses.live_funcs)
    \o Unused("Table", new_uses.live_tables, uses.live_tables)
    \o Unused("Global", new_uses.live_globals, uses.live_globals)
    \o Unused("Memory", new_uses.live_memories, uses.live_memories)
    \o Unused("Data", new_uses.live_datas, uses.live_datas)
    \o Unused("Elem", new_uses.live_elems, uses.live_elems)
    \o Unused("Tag", new_uses.live_tags, uses.live_tags)

\* one iteration of `while !work_queue.is_empty()`
ReachStep ==
    /\ pc = "reach"
    /\ work_queue # <<>>
    /\ LET work == Head(work_queue)
       IN  IF WorkPanics(ir, work)
           THEN pc' = "panicked" /\ UNCHANGED <<work_queue, all_uses>>
           ELSE /\ work_queue' = PushUnused(Tail(work_queue), NewUses(ir, work), all_uses)
                /\ all_uses' = merge(all_uses, NewUses(ir, work))
                /\ pc' = pc
    /\ UNCHANGED <<buf, pass, first_out, payloads, funcs, ir, relocations, next_section, out, written>>

\* the loop ends on an empty queue
ReachDone ==
    /\ pc = "reach"
    /\ work_queue = <<>>
    /\ pc' = "relocate"
    /\ UNCHANGED <<buf, pass, first_out, payloads, funcs, ir, work_queue, all_uses, relocations,
                   next_section, out, written>>

\* the queue without its element at position i
RemoveAt(queue, i) == SubSeq(queue, 1, i - 1) \o SubSeq(queue, i + 1, Len(queue))

\* the iteration of the loop with `work_queue.remove(0)` taking another
\* position: any queued item may be the next one popped
ReachStepAny ==
    /\ pc = "reach"
    /\ work_queue # <<>>
    /\ \E i \in DOMAIN work_queue :
          LET work == work_queue[i]
          IN  IF WorkPanics(ir, work)
              THEN pc' = "panicked" /\ UNCHANGED <<work_queue, all_uses>>
              ELSE /\ work_queue' = PushUnused(RemoveAt(work_queue, i),
                                               NewUses(ir, work), all_uses)
                   /\ all_uses' = merge(all_uses, NewUses(ir, work))
                   /\ pc' = pc
    /\ UNCHANGED <<buf, pass, first_out, payloads, funcs, ir, relocations, next_section, out, written>>

(***************************************************************************)
(* Relocations, lines 317-350.                                              *)
(***************************************************************************)
Reloc(kind, idx) == <<kind, idx>>

\* the expect() of get_new_index fails: idx is not in live_things
NewIndexPanics(live_things, idx) == ~Contains(live_things, idx)

\* live_things.iter().position(|&v| v == *idx) as u32
get_new_index(live_things, idx) ==
    (CHOOSE i \in DOMAIN live_things :
        /\ live_things[i] = idx
        /\ \A j \in DOMAIN live_things : j < i => live_things[j] # idx) - 1

\* one `for x_idx in &keys { relocations.insert(Relocation::K(x_idx),
\* get_new_index(&live, x_idx)) }` loop
RECURSIVE InsertAll(_, _, _, _)
InsertAll(map, kind, keys, live) ==
    IF keys = <<>> THEN map
    ELSE InsertAll((Reloc(kind, Head(keys)) :> get_new_index(live, Head(keys))) @@ map,
                   kind, Tail(keys), live)

\* the keys of the first loop (lines 319-322) are taken from live_tables
TypeRelocKeys(uses) == uses.live_tables

RelocationsPanic(uses) ==
    \E i \in DOMAIN TypeRelocKeys(uses) :
        NewIndexPanics(uses.live_types, TypeRelocKeys(uses)[i])

EmptyMap == [k \in {} |-> 0]

BuildRelocations(uses) ==
    LET m1 == InsertAll(EmptyMap, "Type", TypeRelocKeys(uses), uses.live_types)
        m2 == InsertAll(m1, "Func", uses.live_funcs, uses.live_funcs)
        m3 == InsertAll(m2, "Table", uses.live_tables, uses.live_tables)
        m4 == InsertAll(m3, "Global", uses.live_globals, uses.live_globals)
        m5 == InsertAll(m4, "Memory", uses.live_memories, uses.live_memories)
        m6 == InsertAll(m5, "Data", uses.live_datas, uses.live_datas)
        m7 == InsertAll(m6, "Elem", uses.live_elems, uses.live_elems)
    IN  InsertAll(m7, "Tag", uses.live_tags, uses.live_tags)

Relocate ==
    /\ pc = "relocate"
    /\ IF RelocationsPanic(all_uses)
       THEN pc' = "panicked" /\ UNCHANGED relocations
       ELSE pc' = "emit" /\ relocations' = BuildRelocations(all_uses)
    /\ UNCHANGED <<buf, pass, first_out, payloads, funcs, ir, work_queue, all_uses, next_section, out, written>>

\* relocations.get(&reloc).is_some()
HasReloc(map, kind, idx) == Reloc(kind, idx) \in DOMAIN map

(***************************************************************************)
(* RelocatingReencoder, relocation.rs lines 39-119.  Each method looks up   *)
(* the key of its own kind, falls back to the index it was given           *)
(* (unwrap_or), and hands the result to the default utils::*_index, which  *)
(* returns its argument.  main.rs has no `mod relocation`: the emitter     *)
(* re-encodes with RoundtripReencoder, and these methods are applied by the *)
(* Reencode step only.                                                     *)
(***************************************************************************)
\* table_index looking up the function's key
table_index_func(map, table) ==
    IF Reloc("Func", table) \in DOMAIN map THEN map[Reloc("Func", table)] ELSE table

data_index(map, data) ==
    IF Reloc("Data", data) \in DOMAIN map THEN map[Reloc("Data", data)] ELSE data

element_index(map, element) ==
    IF Reloc("Elem", element) \in DOMAIN map THEN map[Reloc("Elem", element)] ELSE element

function_index(map, func) ==
    IF Reloc("Func", func) \in DOMAIN map THEN map[Reloc("Func", func)] ELSE func

global_index(map, global) ==
    IF Reloc("Global", global) \in DOMAIN map THEN map[Reloc("Global", global)] ELSE global

memory_index(map, memory) ==
    IF Reloc("Memory", memory) \in DOMAIN map THEN map[Reloc("Memory", memory)] ELSE memory

table_index(map, table) ==
    IF Reloc("Table", table) \in DOMAIN map THEN map[Reloc("Table", table)] ELSE table

tag_index(map, tag) ==
    IF Reloc("Tag", tag) \in DOMAIN map THEN map[Reloc("Tag", tag)] ELSE tag

type_index(map, ty) ==
    IF Reloc("Type", ty) \in DOMAIN map THEN map[Reloc("Type", ty)] ELSE ty

\* the method of the Reencode trait that rewrites an index of the given kind
ReencodeIndex(kind, map, idx) ==
    CASE kind = "Data" -> data_index(map, idx)
      [] kind = "Elem" -> element_index(map, idx)
      [] kind = "Func" -> function_index(map, idx)
      [] kind = "Global" -> global_index(map, idx)
      [] kind = "Memory" -> memory_index(map, idx)
      [] kind = "Table" -> table_index(map, idx)
      [] kind = "Tag" -> tag_index(map, idx)
      [] kind = "Type" -> type_index(map, idx)

RelocationKinds == {"Type", "Func", "Table", "Global", "Memory", "Data", "Elem", "Tag"}

\* one index of one kind handed to a RelocatingReencoder over the relocations
Reencode ==
    /\ pc = "emit"
    /\ out = <<>>
    /\ \E kind \in RelocationKinds, idx \in 0..MaxIdx :
          out' = <<[sec |-> "Index", kind |-> kind, old |-> idx,
                    new |-> ReencodeIndex(kind, relocations, idx)]>>
    /\ UNCHANGED <<buf, pass, first_out, payloads, funcs, pc, ir, work_queue, all_uses,
                   relocations, next_section, written>>

(***************************************************************************)
(* The emitter, lines 356-568: one element of `sections` per step.          *)
(***************************************************************************)
\* 0, 1, .., n-1: the indices of .iter().enumerate()
Indices(n) == [i \in 1..n |-> i - 1]

\* EmitImports with one counter shared by all the kinds
RECURSIVE EmitImportsOneCounter(_, _, _, _)
EmitImportsOneCounter(imports, uses, counters, acc) ==
    IF imports = <<>> THEN acc
    ELSE LET import == Head(imports)
             live == CASE import.kind = "func" -> uses.live_funcs
                       [] import.kind = "table" -> uses.live_tables
                       [] import.kind = "memory" -> uses.live_memories
                       [] import.kind = "global" -> uses.live_globals
                       [] import.kind = "tag" -> uses.live_tags
         IN  EmitImportsOneCounter(Tail(imports), uses,
                 [counters EXCEPT !["func"] = @ + 1],
                 IF Contains(live, counters["func"])
                 THEN Append(acc, import) ELSE acc)

\* lines 370-423: walk the imports with one counter per kind
RECURSIVE EmitImports(_, _, _, _)
EmitImports(imports, uses, counters, acc) ==
    IF imports = <<>> THEN acc
    ELSE LET import == Head(imports)
             live == CASE import.kind = "func" -> uses.live_funcs
                       [] import.kind = "table" -> uses.live_tables
                       [] import.kind = "memory" -> uses.live_memories
                       [] import.kind = "global" -> uses.live_globals
                       [] import.kind = "tag" -> uses.live_tags
         IN  EmitImports(Tail(imports), uses,
                 [counters EXCEPT ![import.kind] = @ + 1],
                 IF Contains(live, counters[import.kind])
                 THEN Append(acc, import) ELSE acc)

ImportSection(r, uses) ==
    [sec |-> "Import",
     entries |-> EmitImports(r.imports, uses,
                    [func |-> 0, table |-> 0, memory |-> 0, global |-> 0, tag |-> 0],
                    <<>>)]

\* the type index written for a live defined function, line 433
FunctionEntry(r, map, idx) == At(r.func_types, idx)

FunctionSection(r, map) ==
    LET Live(i) == HasReloc(map, "Func", r.num_imported_functions + i)
        sel == SelectSeq(Indices(Len(r.defined_funcs)), Live)
    IN  [sec |-> "Function",
         entries |-> [k \in DOMAIN sel |->
                        FunctionEntry(r, map, r.num_imported_functions + sel[k])]]

FunctionSectionPanics(r, map) ==
    \E i \in 0..(Len(r.defined_funcs) - 1) :
        /\ HasReloc(map, "Func", r.num_imported_functions + i)
        /\ ~InBounds(r.func_types, r.num_imported_functions + i)

TableSection(r, map) ==
    LET Live(i) == HasReloc(map, "Table", r.num_imported_tables + i)
        sel == SelectSeq(Indices(Len(r.defined_tables)), Live)
    IN  [sec |-> "Table",
         entries |-> [k \in DOMAIN sel |-> At(r.defined_tables, sel[k])]]

GlobalSection(r, map) ==
    LET Live(i) == HasReloc(map, "Global", r.num_imported_globals + i)
        sel == SelectSeq(Indices(Len(r.defined_globals)), Live)
    IN  [sec |-> "Global",
         entries |-> [k \in DOMAIN sel |-> At(r.defined_globals, sel[k])]]

\* `let reloc = match export.kind`, lines 477-483
ExportReloc(export) ==
    CASE export.kind = "func" -> Reloc("Func", export.index)
      [] export.kind = "table" -> Reloc("Table", export.index)
      [] export.kind = "memory" -> Reloc("Memory", export.index)
      [] export.kind = "global" -> Reloc("Global", export.index)
      [] export.kind = "tag" -> Reloc("Tag", export.index)

\* ExportSection writing the export's original index
ExportSectionOldIndex(r, map) ==
    LET Live(export) == ExportReloc(export) \in DOMAIN map
        sel == SelectSeq(r.exports, Live)
    IN  [sec |-> "Export",
         entries |-> [k \in DOMAIN sel |->
                        [name |-> sel[k].name, kind |-> sel[k].kind,
                         index |-> sel[k].index]]]

ExportSection(r, map) ==
    LET Live(export) == ExportReloc(export) \in DOMAIN map
        sel == SelectSeq(r.exports, Live)
    IN  [sec |-> "Export",
         entries |-> [k \in DOMAIN sel |->
                        [name |-> sel[k].name, kind |-> sel[k].kind,
                         index |-> map[ExportReloc(sel[k])]]]]

\* the function index of the emitted StartSection, lines 493-495
StartFunctionIndex(map, idx) == idx

\* lines 490-498: nothing is handed to out.section when the start is dead
StartSection(r, map) ==
    IF r.has_start /\ HasReloc(map, "Func", r.start_idx)
    THEN <<[sec |-> "Start", function_index |-> StartFunctionIndex(map, r.start_idx)]>>
    ELSE <<>>

ElementSection(r, map) ==
    LET Live(i) == HasReloc(map, "Elem", i)
        sel == SelectSeq(Indices(Len(r.elems)), Live)
    IN  [sec |-> "Element",
         entries |-> [k \in DOMAIN sel |-> At(r.elems, sel[k])]]

\* ElementKind::Declared => todo!() for a live segment
ElementSectionPanics(r, map) ==
    \E i \in 0..(Len(r.elems) - 1) :
        HasReloc(map, "Elem", i) /\ At(r.elems, i).kind = "Declared"

\* lines 532-534: Function::new(vec![]) with a single End
CodeEntry(func) == [locals |-> <<>>, instructions |-> <<Op("end", 0, 0)>>]

CodeSection(r, uses) ==
    LET Live(i) == Contains(uses.live_funcs, i + r.num_imported_functions)
        sel == SelectSeq(Indices(Len(r.defined_funcs)), Live)
    IN  [sec |-> "Code",
         entries |-> [k \in DOMAIN sel |-> CodeEntry(At(r.defined_funcs, sel[k]))]]

\* lines 545-560: the mode is kept, the bytes are `vec![]`
DataEntry(data) == [data EXCEPT !.data = <<>>]

DataSection(r, map) ==
    LET Live(i) == HasReloc(map, "Data", i)
        sel == SelectSeq(Indices(Len(r.datas)), Live)
    IN  [sec |-> "Data",
         entries |-> [k \in DOMAIN sel |-> DataEntry(At(r.datas, sel[k]))]]

\* the arm of `match section` panics
EmitPanics(r, uses, map, section) ==
    CASE section.s = "Memory" -> TRUE
      [] section.s = "Tag" -> TRUE
      [] section.s = "Function" -> FunctionSectionPanics(r, map)
      [] section.s = "Element" -> ElementSectionPanics(r, map)
      [] OTHER -> FALSE

\* what the arm of `match section` hands to out.section(..)
EmitOne(r, uses, map, section) ==
    CASE section.s = "Passthrough" ->
            <<[sec |-> "Raw", id |-> section.id, data |-> section.data]>>
      [] section.s = "Import" -> <<ImportSection(r, uses)>>
      [] section.s = "Function" -> <<FunctionSection(r, map)>>
      [] section.s = "Table" -> <<TableSection(r, map)>>
      [] section.s = "Global" -> <<GlobalSection(r, map)>>
      [] section.s = "Export" -> <<ExportSection(r, map)>>
      [] section.s = "Start" -> StartSection(r, map)
      [] section.s = "Element" -> <<ElementSection(r, map)>>
      [] section.s = "Code" -> <<CodeSection(r, uses)>>
      [] section.s = "Data" -> <<DataSection(r, map)>>

EmitSection ==
    /\ pc = "emit"
    /\ next_section <= Len(ir.sections)
    /\ LET section == ir.sections[next_section]
       IN  IF EmitPanics(ir, all_uses, relocations, section)
           THEN pc' = "panicked" /\ UNCHANGED <<out, next_section>>
           ELSE /\ out' = out \o EmitOne(ir, all_uses, relocations, section)
                /\ next_section' = next_section + 1
                /\ pc' = pc
    /\ UNCHANGED <<buf, pass, first_out, payloads, funcs, ir, work_queue, all_uses, relocations, written>>

\* a write of the module built so far, made while sections are still to come
FinishEarly ==
    /\ pc = "emit"
    /\ written = 0
    /\ written' = written + 1
    /\ UNCHANGED <<buf, pass, first_out, payloads, funcs, pc, ir, work_queue, all_uses,
                   relocations, next_section, out>>

\* lines 568-572: out.finish() and the single fs::write
Finish ==
    /\ pc = "emit"
    /\ next_section > Len(ir.sections)
    /\ written' = written + 1
    /\ pc' = "done"
    /\ UNCHANGED <<buf, pass, first_out, payloads, funcs, ir, work_queue, all_uses, relocations,
                   next_section, out>>

(***************************************************************************)
(* A second run of the tool, on the file the first run wrote and with the   *)
(* same selection.                                                          *)
(***************************************************************************)
\* the payloads parser.parse_all yields for one section of a written module
ParseSection(section) ==
    CASE section.sec = "Raw" -> <<section.data>>
      [] section.sec = "Import" -> <<[p |-> "Import", imports |-> section.entries]>>
      [] section.sec = "Function" -> <<[p |-> "Function", type_idxs |-> section.entries]>>
      [] section.sec = "Table" -> <<[p |-> "Table", tables |-> section.entries]>>
      [] section.sec = "Global" -> <<[p |-> "Global", globals |-> section.entries]>>
      [] section.sec = "Export" -> <<[p |-> "Export", exports |-> section.entries]>>
      [] section.sec = "Start" -> <<[p |-> "Start", func |-> section.function_index]>>
      [] section.sec = "Element" -> <<[p |-> "Element", elems |-> section.entries]>>
      [] section.sec = "Code" ->
            <<[p |-> "CodeStart"]>>
            \o [k \in DOMAIN section.entries |->
                  [p |-> "CodeEntry", locals |-> section.entries[k].locals,
                   instructions |-> section.entries[k].instructions]]
      [] section.sec = "Data" -> <<[p |-> "Data", datas |-> section.entries]>>

ParseModule(sections) == Flatten([i \in DOMAIN sections |-> ParseSection(sections[i])])

\* args.funcs names every function of the module
SelectsEveryFunction ==
    Range(funcs) = 0..(ir.num_imported_functions + Len(ir.defined_funcs) - 1)

\* main is entered again: the file written by the finished run is the input,
\* args.funcs is the same, and every local starts afresh
Rerun ==
    /\ pc = "done"
    /\ pass = 1
    /\ SelectsEveryFunction
    /\ pass' = 2
    /\ first_out' = out
    /\ buf' = ParseModule(out)
    /\ payloads' = ParseModule(out)
    /\ pc' = "ingest"
    /\ ir' = IrInit
    /\ work_queue' = <<>>
    /\ all_uses' = UsesDefault
    /\ relocations' = EmptyMap
    /\ next_section' = 1
    /\ out' = <<>>
    /\ written' = 0
    /\ UNCHANGED funcs

(***************************************************************************)
(* The checked inputs: well-formed modules around one layout.  Every module *)
(* has three types (an explicit rec group of two function types, and a      *)
(* self-referential struct), two defined functions, a table, a global, a    *)
(* tag, an element segment, a data segment, exports, and three custom       *)
(* sections, one of them "name".  A shape chooses the imports, whether a    *)
(* memory section is present and whether there is a start section; the      *)
(* bodies choose what the two defined functions reference.                  *)
(***************************************************************************)
End == Op("end", 0, 0)

ModuleTypes ==
    << <<FuncTy(<<RefT(1)>>, <<>>), FuncTy(<<I32>>, <<FuncRef>>)>>,
       <<StructTy(<<I8, StVal(RefT(2))>>)>> >>

MemTy == [min |-> 1]

ImportOf(k, ti, t) ==
    [module |-> "env", name |-> k, kind |-> k, type_idx |-> ti, ty |-> t]

ImportLists ==
    { <<>>,
      <<ImportOf("func", 0, I32), ImportOf("memory", 0, MemTy)>>,
      <<ImportOf("func", 0, I32), ImportOf("memory", 0, MemTy),
        ImportOf("global", 0, I32), [ImportOf("func", 1, I32) EXCEPT !.name = "func1"],
        ImportOf("table", 0, RefT(1)), ImportOf("tag", 1, I32)>> }

NumImported(imp, k) == Cardinality({i \in DOMAIN imp : imp[i].kind = k})

Shapes ==
    [imp : ImportLists, mem : BOOLEAN, start : BOOLEAN]

HasMemory(sh) == sh.mem \/ NumImported(sh.imp, "memory") > 0

\* the operators a body may hold, with indices that exist in the shape
Instrs(sh) ==
    LET nf == NumImported(sh.imp, "func") + 2
    IN  {Op("nop", 0, 0), Op("call_indirect", 0, 0), Op("global_get", 0, 0),
         Op("table_get", 0, 0), Op("throw", 0, 0), Op("table_init", 0, 0),
         Op("data_drop", 0, 0), Op("struct_new", 2, 0)}
        \cup {Op("call", f, 0) : f \in 0..(nf - 1)}
        \cup (IF HasMemory(sh) THEN {Op("memory_size", 0, 0)} ELSE {})

Module(sh, i1, i2) ==
    LET nf == NumImported(sh.imp, "func")
        ng == NumImported(sh.imp, "global")
        some(b, x) == IF b THEN <<x>> ELSE <<>>
    IN  <<[p |-> "Custom", name |-> "producers", bytes |-> <<7>>]>>
        \o <<[p |-> "Type", recgroups |-> ModuleTypes]>>
        \o some(sh.imp # <<>>, [p |-> "Import", imports |-> sh.imp])
        \o <<[p |-> "Function", type_idxs |-> <<0, 1>>]>>
        \o <<[p |-> "Table", tables |->
                <<[ty |-> FuncRef, has_init |-> FALSE, init_expr |-> <<>>]>>]>>
        \o some(sh.mem, [p |-> "Memory", mems |-> <<MemTy>>])
        \o <<[p |-> "Tag", tags |-> <<1>>]>>
        \o <<[p |-> "Global", globals |->
                <<[ty |-> FuncRef, init_expr |-> <<Op("ref_func", nf, 0), End>>]>>]>>
        \o <<[p |-> "Export", exports |->
                <<[name |-> "run", kind |-> "func", index |-> nf + 1],
                  [name |-> "g", kind |-> "global", index |-> ng],
                  [name |-> "first", kind |-> "func", index |-> 0],
                  [name |-> "tab", kind |-> "table", index |-> 0],
                  [name |-> "tag", kind |-> "tag", index |-> 0]>>
                \o some(HasMemory(sh),
                        [name |-> "mem", kind |-> "memory", index |-> 0])]>>
        \o <<[p |-> "Custom", name |-> "sourceMappingURL", bytes |-> <<8>>]>>
        \o some(sh.start, [p |-> "Start", func |-> nf + 1])
        \o <<[p |-> "Element", elems |->
                <<[kind |-> "Active", has_table |-> FALSE, table_index |-> 0,
                   offset_expr |-> <<Op("i32_const", 0, 0), End>>,
                   items |-> <<nf>>]>>]>>
        \o <<[p |-> "DataCount", count |-> 1]>>
        \o <<[p |-> "CodeStart"],
             [p |-> "CodeEntry", locals |-> <<<<1, I32>>>>,
              instructions |-> <<i1, End>>],
             [p |-> "CodeEntry", locals |-> <<<<1, RefT(2)>>>>,
              instructions |-> <<i2, End>>]>>
        \o <<[p |-> "Data", datas |->
                <<[kind |-> IF HasMemory(sh) THEN "Active" ELSE "Passive",
                   memory_index |-> 0,
                   offset_expr |-> IF HasMemory(sh)
                                   THEN <<Op("i32_const", 0, 0), End>> ELSE <<>>,
                   data |-> <<1, 2>>]>>]>>
        \o <<[p |-> "Custom", name |-> "name", bytes |-> <<9>>]>>

\* one shape with every operator in a body, and every shape with a few bodies
BaseShape ==
    [imp |-> <<ImportOf("func", 0, I32), ImportOf("memory", 0, MemTy)>>,
     mem |-> FALSE, start |-> TRUE]

\* no reference, a call of the first defined function, a call of the second
PlainBodies(sh) ==
    {Op("nop", 0, 0), Op("call", NumImported(sh.imp, "func"), 0),
     Op("call", NumImported(sh.imp, "func") + 1, 0)}

Modules ==
    {Module(BaseShape, i1, i2) : i1 \in PlainBodies(BaseShape), i2 \in Instrs(BaseShape)}
    \cup {Module(BaseShape, i1, Op("nop", 0, 0)) : i1 \in Instrs(BaseShape)}
    \cup UNION {{Module(sh, i1, i2) :
                    i1 \in {Op("nop", 0, 0), Op("call", NumImported(sh.imp, "func") + 1, 0)},
                    i2 \in {Op("nop", 0, 0), Op("global_get", 0, 0), Op("table_get", 0, 0)}
                           \cup (IF HasMemory(sh) THEN {Op("memory_size", 0, 0)} ELSE {})}
                : sh \in Shapes}

RECURSIVE SeqsUpTo(_, _)
SeqsUpTo(S, n) ==
    IF n = 0 THEN {<<>>}
    ELSE SeqsUpTo(S, n - 1)
         \cup {Append(q, x) : q \in {r \in SeqsUpTo(S, n - 1) : Len(r) = n - 1}, x \in S}

\* args.funcs is `required = true`: clap rejects an empty selection
Selections == SeqsUpTo(0..MaxIdx, MaxSeeds) \ {<<>>}

Init ==
    /\ buf \in Modules
    /\ pass = 1
    /\ first_out = <<>>
    /\ payloads = buf
    /\ funcs \in Selections
    /\ pc = "ingest"
    /\ ir = IrInit
    /\ work_queue = <<>>
    /\ all_uses = UsesDefault
    /\ relocations = EmptyMap
    /\ next_section = 1
    /\ out = <<>>
    /\ written = 0

Next ==
    \/ Ingest
    \/ Seed
    \/ ReachStep
    \/ ReachDone
    \/ Relocate
    \/ EmitSection
    \/ Finish

Spec == Init /\ [][Next]_vars

\* the while loop keeps running while its condition holds and is left when
\* the queue is empty: weak fairness of ReachDone and of ReachStep, the
\* latter with ENABLED <<ReachStep>>_vars written out as the loop condition
LoopRuns == pc = "reach" /\ work_queue # <<>>

SpecFair ==
    /\ Spec
    /\ WF_vars(ReachDone)
    /\ ([]<>~LoopRuns \/ []<><<ReachStep>>_vars)

\* the tool run once, and run again on its output when every function was
\* selected
NextTwice ==
    \/ Ingest
    \/ Seed
    \/ ReachStep
    \/ ReachDone
    \/ Relocate
    \/ EmitSection
    \/ Finish
    \/ Rerun

SpecTwice == Init /\ [][NextTwice]_vars

\* ingest and the worklist loop, the loop popping any queued item; the
\* inputs are the modules of the base shape whose bodies call each other,
\* themselves or nothing, or read the global or the table
OrderModules ==
    {Module(BaseShape, i1, i2) :
        i1 \in PlainBodies(BaseShape) \cup {Op("global_get", 0, 0)},
        i2 \in PlainBodies(BaseShape) \cup {Op("table_get", 0, 0)}}

InitAnyOrder == Init /\ buf \in OrderModules

NextAnyOrder ==
    \/ Ingest
    \/ Seed
    \/ ReachStepAny
    \/ ReachDone

SpecAnyOrder == InitAnyOrder /\ [][NextAnyOrder]_vars

\* the function section of a module, naming other type indices
WithFuncTypes(module, type_idxs) ==
    [i \in DOMAIN module |->
        IF module[i].p = "Function"
        THEN [module[i] EXCEPT !.type_idxs = type_idxs] ELSE module[i]]

\* Modules that parse_all reads without an error, since it decodes and does
\* not validate: bodies naming a function, table or global past the end of
\* its index space, a function section naming a type past the end, and a
\* function section shorter than the code section; with well-formed ones
PastEndBodies ==
    {Op("nop", 0, 0), Op("call", NumImported(BaseShape.imp, "func") + 2, 0),
     Op("table_get", 1, 0), Op("global_get", 1, 0)}

UncheckedModules ==
    {Module(BaseShape, i1, i2) : i1 \in PlainBodies(BaseShape), i2 \in PastEndBodies}
    \cup {WithFuncTypes(Module(BaseShape, i1, Op("nop", 0, 0)), tys) :
            i1 \in PlainBodies(BaseShape),
            tys \in {<<0, Len(Flatten(ModuleTypes))>>, <<0>>}}

InitUnchecked ==
    /\ buf \in UncheckedModules
    /\ pass = 1
    /\ first_out = <<>>
    /\ payloads = buf
    /\ funcs \in Selections
    /\ pc = "ingest"
    /\ ir = IrInit
    /\ work_queue = <<>>
    /\ all_uses = UsesDefault
    /\ relocations = EmptyMap
    /\ next_section = 1
    /\ out = <<>>
    /\ written = 0

SpecUnchecked == InitUnchecked /\ [][Next]_vars

\* the relocations of a run, with a RelocatingReencoder applied to an index
NextReencode ==
    \/ Ingest
    \/ Seed
    \/ ReachStep
    \/ ReachDone
    \/ Relocate
    \/ Reencode

SpecReencode == Init /\ [][NextReencode]_vars

(***************************************************************************)
(* Vocabulary of the properties.                                            *)
(***************************************************************************)
ItemKinds == {"Type", "Func", "Table", "Global", "Memory", "Data", "Elem", "Tag"}

\* the live list of one index space
LiveList(uses, kind) ==
    CASE kind = "Type" -> uses.live_types
      [] kind = "Func" -> uses.live_funcs
      [] kind = "Table" -> uses.live_tables
      [] kind = "Global" -> uses.live_globals
      [] kind = "Memory" -> uses.live_memories
      [] kind = "Data" -> uses.live_datas
      [] kind = "Elem" -> uses.live_elems
      [] kind = "Tag" -> uses.live_tags

\* a Uses as a set of (kind, index) items
Items(uses) ==
    UNION {{<<kind, i>> : i \in Range(LiveList(uses, kind))} : kind \in ItemKinds}

\* the items the worklist's match lists for item x, x itself included
DirectUses(x) == Items(NewUses(ir, WorkItem(x[1], x[2])))

Walkable(x) == ~WorkPanics(ir, WorkItem(x[1], x[2]))

\* the while loop has ended on an empty queue
LoopDone == pc \in {"relocate", "emit", "done"}

\* the relocation phase has completed
Relocated == pc \in {"emit", "done"}

NumFuncs == ir.num_imported_functions + Len(ir.defined_funcs)

\* position of idx in an ascending list that holds it
PositionIn(live, idx) == Cardinality({x \in Range(live) : x < idx})

KindOfExport(k) ==
    CASE k = "func" -> "Func" [] k = "table" -> "Table" [] k = "memory" -> "Memory"
      [] k = "global" -> "Global" [] k = "tag" -> "Tag"

OutSections(name) == {i \in DOMAIN out : out[i].sec = name}

(***************************************************************************)
(* C1 Closure: once the reachability loop has ended on an empty queue,      *)
(* every live item is one the loop can walk, and every item the loop's      *)
(* match lists as used by a live item is live too.                          *)
(***************************************************************************)
C1_Closure ==
    LoopDone =>
        \A x \in Items(all_uses) : Walkable(x) /\ DirectUses(x) \subseteq Items(all_uses)

\* the loop ended with items of four spaces live, reached through calls and types
C1_Witness ==
    /\ pc = "relocate"
    /\ Len(funcs) = 1
    /\ Len(all_uses.live_funcs) >= 2
    /\ Len(all_uses.live_types) >= 3
    /\ all_uses.live_tables # <<>>

(***************************************************************************)
(* C2 Exactness: once the loop has ended, the live set is exactly the least *)
(* set that holds the selected functions and is closed under direct use;    *)
(* neither the start function nor an export adds to it.                     *)
(***************************************************************************)
RECURSIVE LeastClosed(_)
LeastClosed(S) ==
    LET step == S \cup UNION {IF Walkable(x) THEN DirectUses(x) ELSE {} : x \in S}
    IN  IF step = S THEN S ELSE LeastClosed(step)

InRangeSeeds == {<<"Func", f>> : f \in {g \in Range(funcs) : g < NumFuncs}}

C2_Exactness == LoopDone => Items(all_uses) = LeastClosed(InRangeSeeds)

\* the loop ended with the start function and an exported function dead
C2_Witness ==
    /\ pc = "relocate"
    /\ all_uses.live_funcs # <<>>
    /\ ir.has_start /\ ~Contains(all_uses.live_funcs, ir.start_idx)
    /\ \E i \in DOMAIN ir.exports :
          ir.exports[i].kind = "func"
          /\ ~Contains(all_uses.live_funcs, ir.exports[i].index)

(***************************************************************************)
(* The output module as the emitted sections describe it.                   *)
(***************************************************************************)
\* the entries of the emitted section of one kind (none emitted: no entries)
OutEntries(name) ==
    IF OutSections(name) = {} THEN <<>>
    ELSE out[CHOOSE i \in OutSections(name) : TRUE].entries

\* the payload of the passed-through section with the given id
OutRaw(id) == {out[i].data : i \in {j \in DOMAIN out : out[j].sec = "Raw" /\ out[j].id = id}}

OutImports(kind) ==
    LET OfKind(import) == import.kind = kind
    IN  SelectSeq(OutEntries("Import"), OfKind)

\* the size of each index space of the output module
OutCount(kind) ==
    CASE kind = "Type" ->
            IF OutRaw(1) = {} THEN 0
            ELSE Len(Flatten((CHOOSE d \in OutRaw(1) : TRUE).recgroups))
      [] kind = "Func" -> Len(OutImports("func")) + Len(OutEntries("Function"))
      [] kind = "Table" -> Len(OutImports("table")) + Len(OutEntries("Table"))
      [] kind = "Global" -> Len(OutImports("global")) + Len(OutEntries("Global"))
      [] kind = "Memory" -> Len(OutImports("memory"))
      [] kind = "Tag" ->
            Len(OutImports("tag"))
            + (IF OutRaw(13) = {} THEN 0 ELSE Len((CHOOSE d \in OutRaw(13) : TRUE).tags))
      [] kind = "Elem" -> Len(OutEntries("Element"))
      [] kind = "Data" -> Len(OutEntries("Data"))

\* every index of a constant expression is in range of the output module
ExprInRange(expr) ==
    \A i \in DOMAIN expr :
        /\ expr[i].op = "ref_func" => expr[i].a < OutCount("Func")
        /\ expr[i].op = "global_get" => expr[i].a < OutCount("Global")

(***************************************************************************)
(* C3 Validity: in a written module with a non-empty live set, every index  *)
(* written into a section is in range of the output's index space, and the  *)
(* function and code sections have the same number of entries.             *)
(***************************************************************************)
C3_Validity ==
    (pc = "done" /\ Items(all_uses) # {}) =>
        /\ \A i \in DOMAIN OutEntries("Function") :
              OutEntries("Function")[i] < OutCount("Type")
        /\ \A i \in DOMAIN OutImports("func") :
              OutImports("func")[i].type_idx < OutCount("Type")
        /\ \A i \in DOMAIN OutEntries("Export") :
              OutEntries("Export")[i].index
                  < OutCount(KindOfExport(OutEntries("Export")[i].kind))
        /\ \A i \in OutSections("Start") : out[i].function_index < OutCount("Func")
        /\ \A i \in DOMAIN OutEntries("Element") :
              /\ OutEntries("Element")[i].kind = "Active" =>
                    OutEntries("Element")[i].table_index < OutCount("Table")
              /\ ExprInRange(OutEntries("Element")[i].offset_expr)
        /\ \A i \in DOMAIN OutEntries("Data") :
              /\ OutEntries("Data")[i].kind = "Active" =>
                    OutEntries("Data")[i].memory_index < OutCount("Memory")
              /\ ExprInRange(OutEntries("Data")[i].offset_expr)
        /\ \A i \in DOMAIN OutEntries("Global") :
              ExprInRange(OutEntries("Global")[i].init_expr)
        /\ \A i \in DOMAIN OutEntries("Table") :
              ExprInRange(OutEntries("Table")[i].init_expr)
        /\ Len(OutEntries("Function")) = Len(OutEntries("Code"))

(***************************************************************************)
(* C4 Density: in a written module, each of the eight index spaces of the   *)
(* output holds exactly as many items as that space's live list.            *)
(***************************************************************************)
C4_Density ==
    pc = "done" =>
        \A kind \in ItemKinds : OutCount(kind) = Len(LiveList(all_uses, kind))

(***************************************************************************)
(* C5 Relocation totality: after the relocation phase, the map has a key    *)
(* K(i) exactly for the live indices i of each space K, and maps i to its   *)
(* position in the ascending live list.                                     *)
(***************************************************************************)
C5_RelocationTotal ==
    Relocated =>
        /\ DOMAIN relocations = Items(all_uses)
        /\ \A x \in Items(all_uses) :
              relocations[x] = PositionIn(LiveList(all_uses, x[1]), x[2])

(***************************************************************************)
(* C6 Relative order: after the relocation phase, any two live items a < b  *)
(* of one space both have a new index, and new(a) < new(b).                 *)
(***************************************************************************)
C6_RelativeOrder ==
    Relocated =>
        \A kind \in ItemKinds :
            \A a, b \in Range(LiveList(all_uses, kind)) :
                a < b =>
                    /\ HasReloc(relocations, kind, a)
                    /\ HasReloc(relocations, kind, b)
                    /\ relocations[Reloc(kind, a)] < relocations[Reloc(kind, b)]

(***************************************************************************)
(* C7 Out-of-range selections: a run never aborts on a selected function    *)
(* index that is past the end of the function index space.                  *)
(***************************************************************************)
C7_OutOfRangeSkipped ==
    \A i \in DOMAIN funcs :
        ~ /\ pc = "panicked"
          /\ payloads = <<>>
          /\ work_queue # <<>>
          /\ Head(work_queue) = WorkItem("Func", funcs[i])
          /\ funcs[i] >= NumFuncs

(***************************************************************************)
(* C8 Synthetic exports: the emitted export section holds, for every        *)
(* selected function i, an export isolated_func_<i> of the function's new   *)
(* index exactly when the function is live.                                 *)
(***************************************************************************)
IsolatedName(kind, i) == "isolated_" \o kind \o "_" \o ToString(i)

C8_SyntheticExports ==
    OutSections("Export") # {} =>
        \A i \in DOMAIN funcs :
            Contains(all_uses.live_funcs, funcs[i])
            <=> \E k \in DOMAIN OutEntries("Export") :
                   /\ OutEntries("Export")[k].name = IsolatedName("func", funcs[i])
                   /\ OutEntries("Export")[k].kind = "func"
                   /\ OutEntries("Export")[k].index
                          = PositionIn(all_uses.live_funcs, funcs[i])

(***************************************************************************)
(* C9 Original exports: the emitted export section holds exactly the        *)
(* original exports whose target is live, in their original order, each     *)
(* with its name and kind and with the target's new index.                  *)
(***************************************************************************)
ExportLive(export) ==
    Contains(LiveList(all_uses, KindOfExport(export.kind)), export.index)

SurvivingExports == SelectSeq(ir.exports, ExportLive)

C9_OriginalExports ==
    OutSections("Export") # {} =>
        OutEntries("Export") =
            [k \in DOMAIN SurvivingExports |->
                [name |-> SurvivingExports[k].name,
                 kind |-> SurvivingExports[k].kind,
                 index |-> PositionIn(
                     LiveList(all_uses, KindOfExport(SurvivingExports[k].kind)),
                     SurvivingExports[k].index)]]

\* emitted: some exports dropped, several kept, one of them renumbered
C9_Witness ==
    /\ OutSections("Export") # {}
    /\ Len(OutEntries("Export")) >= 3
    /\ Len(OutEntries("Export")) < Len(ir.exports)
    /\ \E k \in DOMAIN SurvivingExports :
          OutEntries("Export")[k].index # SurvivingExports[k].index
    /\ \E k \in DOMAIN OutEntries("Export") : OutEntries("Export")[k].kind # "func"

(***************************************************************************)
(* C10 Start section: a written module has a start section exactly when    *)
(* the input had one and its function is live, and the section names the    *)
(* function's new index.                                                    *)
(***************************************************************************)
C10_StartSection ==
    pc = "done" =>
        /\ OutSections("Start") # {}
              <=> (ir.has_start /\ Contains(all_uses.live_funcs, ir.start_idx))
        /\ \A i \in OutSections("Start") :
              out[i].function_index = PositionIn(all_uses.live_funcs, ir.start_idx)

(***************************************************************************)
(* C11 Code section: the emitted code section has one body per live        *)
(* defined function, in order, and each body has the function's original   *)
(* local declarations and its original instructions, operator by operator. *)
(***************************************************************************)
LiveDefinedFuncs ==
    LET Live(i) == Contains(all_uses.live_funcs, ir.num_imported_functions + i)
    IN  SelectSeq(Indices(Len(ir.defined_funcs)), Live)

C11_CodeSection ==
    OutSections("Code") # {} =>
        /\ Len(OutEntries("Code")) = Len(LiveDefinedFuncs)
        /\ \A k \in 1..Len(LiveDefinedFuncs) :
              LET func == At(ir.defined_funcs, LiveDefinedFuncs[k])
                  body == OutEntries("Code")[k]
              IN  /\ Len(body.locals) = Len(func.locals)
                  /\ \A j \in 1..Len(func.locals) :
                        body.locals[j][1] = func.locals[j][1]
                  /\ Len(body.instructions) = Len(func.instructions)
                  /\ \A j \in 1..Len(func.instructions) :
                        body.instructions[j].op = func.instructions[j].op

(***************************************************************************)
(* C12 Name-section drop: no custom section named "name" is ever in the    *)
(* recorded sections list, and none is among the emitted sections.         *)
(***************************************************************************)
IsNameSection(payload) == payload.p = "Custom" /\ payload.name = "name"

C12_NameSectionDropped ==
    /\ \A i \in DOMAIN ir.sections :
          (ir.sections[i].s = "Passthrough" /\ ir.sections[i].id = 0)
              => ~IsNameSection(ir.sections[i].data)
    /\ \A i \in DOMAIN out :
          (out[i].sec = "Raw" /\ out[i].id = 0) => ~IsNameSection(out[i].data)

\* a module was written from an input that had a "name" section, and another
\* custom section made it to the output
C12_Witness ==
    /\ pc = "done"
    /\ \E i \in DOMAIN buf : IsNameSection(buf[i])
    /\ OutRaw(0) # {}

(***************************************************************************)
(* C13 Custom-section passthrough: in a written module every custom        *)
(* section of the input other than "name" appears exactly once with the    *)
(* input's bytes, and the emitted sections are the input's sections in the *)
(* input's order (a start section whose function is dead being left out).  *)
(***************************************************************************)
IsOtherCustom(payload) == payload.p = "Custom" /\ payload.name # "name"

\* the id under which the emitter passes a payload through, -1 if it does not
RawId(payload) ==
    CASE payload.p = "Custom" -> 0
      [] payload.p = "Type" -> 1
      [] payload.p = "DataCount" -> 12
      [] payload.p = "Tag" -> 13
      [] OTHER -> -1

\* the section-level payloads of the input, in order, "name" aside
InputSections ==
    LET IsSection(payload) == payload.p # "CodeEntry" /\ ~IsNameSection(payload)
    IN  SelectSeq(buf, IsSection)

\* the sections a written module is expected to have, from the input alone
ExpectedSections ==
    LET Kept(payload) ==
            payload.p = "Start" => Contains(all_uses.live_funcs, payload.func)
    IN  SelectSeq(InputSections, Kept)

SameSection(section, payload) ==
    IF RawId(payload) >= 0
    THEN section.sec = "Raw" /\ section.id = RawId(payload) /\ section.data = payload
    ELSE section.sec = (IF payload.p = "CodeStart" THEN "Code" ELSE payload.p)

C13_CustomPassthrough ==
    pc = "done" =>
        /\ Len(out) = Len(ExpectedSections)
        /\ \A i \in 1..Len(out) : SameSection(out[i], ExpectedSections[i])
        /\ LET IsRawCustom(section) == section.sec = "Raw" /\ section.id = 0
               customs == SelectSeq(out, IsRawCustom)
           IN  [i \in DOMAIN customs |-> customs[i].data] = SelectSeq(buf, IsOtherCustom)

\* a written module with a custom section first and another between known
\* sections, and with the input's start section left out
C13_Witness ==
    /\ pc = "done"
    /\ out[1].sec = "Raw" /\ out[1].id = 0
    /\ \E i \in 2..(Len(out) - 1) :
          out[i].sec = "Raw" /\ out[i].id = 0 /\ out[i + 1].sec # "Raw"
    /\ Len(out) < Len(InputSections)

(***************************************************************************)
(* C14 No partial output: the destination is written at most once, only    *)
(* by a run that has consumed every payload, emptied the work queue, built *)
(* the relocations and emitted every section; a run that has panicked, or  *)
(* has not finished, has written nothing.                                  *)
(***************************************************************************)
C14_NoPartialOutput ==
    /\ written <= 1
    /\ written = 1 =>
          /\ pc = "done"
          /\ payloads = <<>>
          /\ work_queue = <<>>
          /\ next_section > Len(ir.sections)
    /\ pc # "done" => written = 0

\* the one write has been made, after every recorded section was emitted
C14_Witness ==
    /\ pc = "done"
    /\ written = 1
    /\ next_section = Len(ir.sections) + 1
    /\ Len(out) >= 10

(***************************************************************************)
(* C15 Data-count section: in a written module the count of the data-count *)
(* section is the number of live data segments, which is the number of     *)
(* segments of the emitted data section.                                   *)
(***************************************************************************)
C15_DataCount ==
    pc = "done" =>
        \A d \in OutRaw(12) :
            /\ d.count = Len(all_uses.live_datas)
            /\ d.count = Len(OutEntries("Data"))

(***************************************************************************)
(* C16 Import-preserving scenario: the module has one imported function f0 *)
(* and the defined functions f1, f2; f2 calls f1 and f1 calls no function; *)
(* function 2 is selected.  The written module keeps the import at index   *)
(* 0, has f1 and f2 at the new indices 1 and 2, and exports the new index  *)
(* of f2 as isolated_func_2.                                               *)
(***************************************************************************)
Calls(func, f) == \E j \in DOMAIN func.instructions :
                      func.instructions[j] = Op("call", f, 0)

CallsNone(func) == \A j \in DOMAIN func.instructions :
                       func.instructions[j].op \notin {"call", "return_call", "ref_func"}

ImportScenario ==
    /\ ir.num_imported_functions = 1
    /\ Len(ir.defined_funcs) = 2
    /\ CallsNone(At(ir.defined_funcs, 0))
    /\ Calls(At(ir.defined_funcs, 1), 1)
    /\ funcs = <<2>>

C16_ImportScenario ==
    (pc = "done" /\ ImportScenario) =>
        /\ Len(OutImports("func")) = 1
        /\ Len(OutEntries("Function")) = 2
        /\ Len(OutEntries("Code")) = 2
        /\ HasReloc(relocations, "Func", 1) /\ relocations[Reloc("Func", 1)] = 1
        /\ HasReloc(relocations, "Func", 2) /\ relocations[Reloc("Func", 2)] = 2
        /\ \E k \in DOMAIN OutEntries("Export") :
              /\ OutEntries("Export")[k].name = IsolatedName("func", 2)
              /\ OutEntries("Export")[k].kind = "func"
              /\ OutEntries("Export")[k].index = 2

(***************************************************************************)
(* C17 Uniform reencoding: in a written module the type index of every     *)
(* emitted function and function import, every index inside an emitted     *)
(* global initializer, every emitted element item and segment table index  *)
(* and every emitted data segment's memory index is the relocation map's   *)
(* new index of the item the original index denotes.                       *)
(***************************************************************************)
\* the new index of a live item; no index at all for an item that is not live
NewIndex(kind, idx) ==
    IF HasReloc(relocations, kind, idx) THEN <<relocations[Reloc(kind, idx)]>> ELSE <<>>

Written(idx) == <<idx>>

\* the index an operator of a constant expression carries, with its kind
ConstIndexKind(instr) ==
    CASE instr.op = "ref_func" -> "Func"
      [] instr.op = "global_get" -> "Global"
      [] OTHER -> "None"

RelocatedExpr(emitted, original) ==
    /\ Len(emitted) = Len(original)
    /\ \A j \in 1..Len(original) :
          /\ emitted[j].op = original[j].op
          /\ ConstIndexKind(original[j]) # "None" =>
                Written(emitted[j].a) = NewIndex(ConstIndexKind(original[j]), original[j].a)

LiveDefined(kind, num_imported, defined) ==
    LET Live(i) == Contains(LiveList(all_uses, kind), num_imported + i)
    IN  SelectSeq(Indices(Len(defined)), Live)

LiveSegments(kind, segments) == LiveDefined(kind, 0, segments)

C17_UniformReencoding ==
    pc = "done" =>
        /\ \A k \in DOMAIN OutEntries("Function") :
              k <= Len(LiveDefinedFuncs) =>
                  Written(OutEntries("Function")[k]) =
                      NewIndex("Type", At(ir.func_types,
                                          ir.num_imported_functions + LiveDefinedFuncs[k]))
        /\ \A k \in DOMAIN OutImports("func") :
              \E i \in DOMAIN ir.imports :
                  /\ ir.imports[i].kind = "func"
                  /\ Written(OutImports("func")[k].type_idx) =
                         NewIndex("Type", ir.imports[i].type_idx)
        /\ LET sel == LiveDefined("Global", ir.num_imported_globals, ir.defined_globals)
           IN  \A k \in DOMAIN OutEntries("Global") :
                  k <= Len(sel) =>
                      RelocatedExpr(OutEntries("Global")[k].init_expr,
                                    At(ir.defined_globals, sel[k]).init_expr)
        /\ LET sel == LiveSegments("Elem", ir.elems)
           IN  \A k \in DOMAIN OutEntries("Element") :
                  k <= Len(sel) =>
                      LET elem == At(ir.elems, sel[k])
                          emitted == OutEntries("Element")[k]
                      IN  /\ Len(emitted.items) = Len(elem.items)
                          /\ \A j \in 1..Len(elem.items) :
                                Written(emitted.items[j]) = NewIndex("Func", elem.items[j])
                          /\ elem.kind = "Active" =>
                                /\ Written(emitted.table_index) =
                                       NewIndex("Table", elem.table_index)
                                /\ RelocatedExpr(emitted.offset_expr, elem.offset_expr)
        /\ LET sel == LiveSegments("Data", ir.datas)
           IN  \A k \in DOMAIN OutEntries("Data") :
                  (k <= Len(sel) /\ At(ir.datas, sel[k]).kind = "Active") =>
                          /\ Written(OutEntries("Data")[k].memory_index) =
                                 NewIndex("Memory", At(ir.datas, sel[k]).memory_index)
                          /\ RelocatedExpr(OutEntries("Data")[k].offset_expr,
                                           At(ir.datas, sel[k]).offset_expr)

(***************************************************************************)
(* C18 Idempotence of full selection: a run that selects every function    *)
(* writes a module, and the run on that module with the same selection     *)
(* writes a module with the same sections and entries, synthetic exports   *)
(* aside.                                                                  *)
(***************************************************************************)
SyntheticNames ==
    {IsolatedName(kind, i) : kind \in {"func", "table", "memory", "global", "tag"},
                             i \in 0..MaxIdx}

WithoutSynthetic(sections) ==
    LET Original(export) == export.name \notin SyntheticNames
    IN  [i \in DOMAIN sections |->
            IF sections[i].sec = "Export"
            THEN [sections[i] EXCEPT !.entries = SelectSeq(@, Original)]
            ELSE sections[i]]

C18_Idempotence ==
    /\ (pc = "panicked" /\ payloads = <<>>) => ~SelectsEveryFunction
    /\ (pass = 2 /\ pc = "done") =>
          WithoutSynthetic(out) = WithoutSynthetic(first_out)

(***************************************************************************)
(* C19 Termination: once entered, the worklist loop eventually ends on an  *)
(* empty queue.                                                            *)
(***************************************************************************)
C19_Termination == (pc = "reach") ~> LoopDone

(***************************************************************************)
(* C20 Visit-order independence: whichever queued item each iteration      *)
(* pops, a loop that ends has the live set the front-popping loop computes *)
(* from the selection sorted and without its duplicates.                   *)
(***************************************************************************)
\* the while loop of lines 223-310 run from a queue, popping the front item;
\* <<uses>> when it ends on an empty queue, <<>> when an iteration panics
RECURSIVE RunLoop(_, _)
RunLoop(queue, uses) ==
    IF queue = <<>> THEN <<uses>>
    ELSE IF WorkPanics(ir, Head(queue)) THEN <<>>
    ELSE RunLoop(PushUnused(Tail(queue), NewUses(ir, Head(queue)), uses),
                 merge(uses, NewUses(ir, Head(queue))))

FrontOrderResult(seeds) ==
    RunLoop([i \in DOMAIN seeds |-> WorkItem("Func", seeds[i])], UsesDefault)

C20_OrderIndependence ==
    LoopDone => <<all_uses>> = FrontOrderResult(Dedup(Sort(funcs)))

\* a loop has ended whose selection was not in ascending order and whose
\* queue held several items at once
C20_Witness ==
    /\ LoopDone
    /\ Len(funcs) = 2 /\ funcs[1] > funcs[2]
    /\ Len(all_uses.live_funcs) >= 2
    /\ Len(all_uses.live_types) >= 2

(***************************************************************************)
(* C21 Merge: each of the eight lists of all_uses is strictly ascending in *)
(* every state, and an iteration of the loop leaves in each list exactly   *)
(* the elements that were in it or in the matching list of new_uses.       *)
(***************************************************************************)
UsesFields ==
    {"live_types", "live_funcs", "live_tables", "live_globals", "live_memories",
     "live_datas", "live_elems", "live_tags"}

Ascending(s) == \A i \in 1..(Len(s) - 1) : s[i] < s[i + 1]

Normalised(uses) == \A f \in UsesFields : Ascending(uses[f])

MergedFrom(res, a, b) ==
    \A f \in UsesFields :
        /\ Ascending(res[f])
        /\ Range(res[f]) = Range(a[f]) \cup Range(b[f])

C21_Merge ==
    /\ [](Normalised(all_uses))
    /\ [][(pc = "reach" /\ pc' = "reach" /\ work_queue # <<>>) =>
              MergedFrom(all_uses', all_uses, NewUses(ir, Head(work_queue)))]_vars

\* the loop is about to merge the uses of an item whose uses overlap what
\* is live already, into lists that hold several elements
C21_Witness ==
    /\ pc = "reach"
    /\ work_queue # <<>>
    /\ ~WorkPanics(ir, Head(work_queue))
    /\ Len(all_uses.live_types) >= 2
    /\ Len(all_uses.live_funcs) >= 2
    /\ \E f \in UsesFields :
          /\ Range(NewUses(ir, Head(work_queue))[f]) \cap Range(all_uses[f]) # {}
          /\ Range(NewUses(ir, Head(work_queue))[f]) \ Range(all_uses[f]) # {}

(***************************************************************************)
(* C22 Function uses: once the loop has ended, the direct uses of every    *)
(* live function include its signature's type index; those of a defined   *)
(* function include also the uses of its locals' value types and of every  *)
(* instruction of its body.                                                *)
(***************************************************************************)
C22_FunctionUses ==
    LoopDone =>
        \A f \in Range(all_uses.live_funcs) :
            /\ InBounds(ir.func_types, f) =>
                  <<"Type", At(ir.func_types, f)>> \in DirectUses(<<"Func", f>>)
            /\ f >= ir.num_imported_functions =>
                  LET func == At(ir.defined_funcs, f - ir.num_imported_functions)
                  IN  /\ \A i \in DOMAIN func.locals :
                            Items(get_valtype_uses(func.locals[i][2]))
                                \subseteq DirectUses(<<"Func", f>>)
                      /\ \A i \in DOMAIN func.instructions :
                            Items(get_instr_uses(func.instructions[i]))
                                \subseteq DirectUses(<<"Func", f>>)

(***************************************************************************)
(* C23 Initializer uses: once the loop has ended, the direct uses of every *)
(* live defined global include the uses of each instruction of its         *)
(* initializer, and those of every live defined table with an initializer  *)
(* include the uses of that expression.                                    *)
(***************************************************************************)
ExprUses(expr) == UNION {Items(get_instr_uses(expr[i])) : i \in DOMAIN expr}

C23_InitializerUses ==
    LoopDone =>
        /\ \A g \in Range(all_uses.live_globals) :
              g >= ir.num_imported_globals =>
                  ExprUses(At(ir.defined_globals, g - ir.num_imported_globals).init_expr)
                      \subseteq DirectUses(<<"Global", g>>)
        /\ \A t \in Range(all_uses.live_tables) :
              (t >= ir.num_imported_tables
               /\ At(ir.defined_tables, t - ir.num_imported_tables).has_init) =>
                  ExprUses(At(ir.defined_tables, t - ir.num_imported_tables).init_expr)
                      \subseteq DirectUses(<<"Table", t>>)

(***************************************************************************)
(* C24 Tag, data and element items are walked: the loop never aborts on a  *)
(* queued tag, data segment or element segment, and once it has ended an   *)
(* active live data segment has its memory live, a live element segment    *)
(* has its item functions live and, if active, its table.                  *)
(***************************************************************************)
C24_SegmentsWalked ==
    /\ (pc = "panicked" /\ work_queue # <<>>) =>
          Head(work_queue).kind \notin {"Tag", "Data", "Elem"}
    /\ LoopDone =>
          /\ \A d \in Range(all_uses.live_datas) :
                At(ir.datas, d).kind = "Active" =>
                    Contains(all_uses.live_memories, At(ir.datas, d).memory_index)
          /\ \A e \in Range(all_uses.live_elems) :
                /\ \A j \in DOMAIN At(ir.elems, e).items :
                      Contains(all_uses.live_funcs, At(ir.elems, e).items[j])
                /\ At(ir.elems, e).kind = "Active" =>
                      Contains(all_uses.live_tables, At(ir.elems, e).table_index)

(***************************************************************************)
(* C25 Import emission: the emitted import section holds, in the input's   *)
(* order and with their module and field names, exactly the imports whose  *)
(* index in their kind's index space (the number of earlier imports of     *)
(* that kind) is live.                                                     *)
(***************************************************************************)
KindIndex(i) ==
    Cardinality({j \in 1..(i - 1) : ir.imports[j].kind = ir.imports[i].kind})

ImportKept(i) ==
    Contains(LiveList(all_uses, KindOfExport(ir.imports[i].kind)), KindIndex(i))

KeptImports == SelectSeq([i \in DOMAIN ir.imports |-> i], ImportKept)

C25_ImportEmission ==
    OutSections("Import") # {} =>
        /\ Len(OutEntries("Import")) = Len(KeptImports)
        /\ \A k \in 1..Len(KeptImports) :
              /\ OutEntries("Import")[k].module = ir.imports[KeptImports[k]].module
              /\ OutEntries("Import")[k].name = ir.imports[KeptImports[k]].name
              /\ OutEntries("Import")[k].kind = ir.imports[KeptImports[k]].kind

\* an import section was emitted with some imports dropped and some kept,
\* among them the second function import without the first, and an import
\* of another kind
C25_Witness ==
    /\ OutSections("Import") # {}
    /\ Len(KeptImports) >= 2
    /\ Len(KeptImports) < Len(ir.imports)
    /\ \E k \in DOMAIN OutEntries("Import") : OutEntries("Import")[k].name = "func1"
    /\ \A k \in DOMAIN OutEntries("Import") : OutEntries("Import")[k].name # "func"
    /\ \E k \in DOMAIN OutEntries("Import") : OutEntries("Import")[k].kind # "func"

(***************************************************************************)
(* C26 Defined-entry emission: for each of the table, memory and global    *)
(* sections of the input the emitter does not abort, and the section it    *)
(* emits holds, in order, exactly the defined entries whose index (imports *)
(* of the kind + position) is live, with their type and initializer.       *)
(***************************************************************************)
DefinedSections == {"Table", "Memory", "Global"}

\* the run aborted in the emitter, at the section next_section
EmitAborted ==
    /\ pc = "panicked"
    /\ payloads = <<>> /\ work_queue = <<>>
    /\ ~RelocationsPanic(all_uses)
    /\ relocations = BuildRelocations(all_uses)
    /\ next_section \in DOMAIN ir.sections

\* the emitter is past the input's section of the given kind
EmitterPast(name) ==
    /\ Relocated
    /\ \E i \in 1..(next_section - 1) : i <= Len(ir.sections) /\ ir.sections[i].s = name

DefinedEmitted(name, kind, num_imported, defined) ==
    EmitterPast(name) =>
        /\ OutSections(name) # {}
        /\ LET sel == LiveDefined(kind, num_imported, defined)
           IN  OutEntries(name) = [k \in DOMAIN sel |-> At(defined, sel[k])]

C26_DefinedEmission ==
    /\ ~(EmitAborted /\ ir.sections[next_section].s \in DefinedSections)
    /\ DefinedEmitted("Table", "Table", ir.num_imported_tables, ir.defined_tables)
    /\ DefinedEmitted("Global", "Global", ir.num_imported_globals, ir.defined_globals)
    /\ DefinedEmitted("Memory", "Memory", ir.num_imported_memories,
                      [i \in 1..(Len(ir.memory_types) - ir.num_imported_memories) |->
                          ir.memory_types[ir.num_imported_memories + i]])

(***************************************************************************)
(* C27 Reencoder substitution: a RelocatingReencoder maps an old index i   *)
(* of kind K to relocations[K(i)] when that key is present and to i when   *)
(* it is absent, whatever the keys of the other kinds are.                 *)
(***************************************************************************)
Reencoded == {out[i] : i \in {j \in DOMAIN out : out[j].sec = "Index"}}

C27_ReencoderSubstitution ==
    \A rec \in Reencoded :
        /\ HasReloc(relocations, rec.kind, rec.old) =>
              rec.new = relocations[Reloc(rec.kind, rec.old)]
        /\ ~HasReloc(relocations, rec.kind, rec.old) => rec.new = rec.old

\* a table index was re-encoded that has no Table entry, while the function
\* of the same index is live and moves to another index
C27_Witness ==
    \E rec \in Reencoded :
        /\ rec.kind = "Table"
        /\ ~HasReloc(relocations, "Table", rec.old)
        /\ HasReloc(relocations, "Func", rec.old)
        /\ relocations[Reloc("Func", rec.old)] # rec.old
        /\ rec.new = rec.old

(***************************************************************************)
(* C28 Ingest bounds checking: no run aborts on a lookup that is out of    *)
(* range for an index the ingest stored: neither func_types[current_func]  *)
(* while a body is read, nor types[idx], table_types[idx],                 *)
(* global_types[idx] or defined_funcs[idx - num_imported_functions] for an *)
(* item the loop queued.                                                   *)
(***************************************************************************)
\* the run aborted while reading a payload
IngestAborted == pc = "panicked" /\ work_queue = <<>> /\ all_uses = UsesDefault

SeedItems == {WorkItem("Func", funcs[i]) : i \in DOMAIN funcs}

\* the run aborted in the loop, on an index lookup for an item that the loop
\* body queued out of the uses of a walked item
LookupAborted ==
    /\ pc = "panicked"
    /\ work_queue # <<>>
    /\ Head(work_queue).kind \in {"Type", "Func", "Table", "Global"}
    /\ WorkPanics(ir, Head(work_queue))
    /\ Head(work_queue) \notin SeedItems

C28_IngestBoundsChecked == ~IngestAborted /\ ~LookupAborted

(***************************************************************************)
(* C29 Relocation never aborts: whatever live set the loop produced, the   *)
(* run does not stop between the end of the loop and the first emitted     *)
(* section, that is, on the expect() of a get_new_index call whose index   *)
(* is not in the list it was handed.                                       *)
(***************************************************************************)
\* the run aborted after the loop had ended and before the relocations map
\* was complete
RelocationAborted ==
    /\ pc = "panicked"
    /\ payloads = <<>> /\ work_queue = <<>>
    /\ all_uses # UsesDefault
    /\ relocations = EmptyMap
    /\ out = <<>>

C29_RelocationNeverAborts == ~RelocationAborted

(***************************************************************************)
(* C30 Bounded work: every queued item is a seed or is live already; an    *)
(* iteration of the loop leaves the rest of the queue as it was and pushes *)
(* behind it, once each, exactly the items that were not live before it    *)
(* and are live after it.  An item is therefore pushed by the loop body at *)
(* most once in a run, and the iterations are at most the seeds plus the   *)
(* items that end up live.                                                 *)
(***************************************************************************)
ItemOf(work) == <<work.kind, work.idx>>

QueuedSeedOrLive ==
    \A i \in DOMAIN work_queue :
        work_queue[i] \in SeedItems \/ ItemOf(work_queue[i]) \in Items(all_uses)

\* the items an iteration has pushed, in the order of the pushes
Pushed == SubSeq(work_queue', Len(work_queue), Len(work_queue'))

PushedOnce ==
    (pc = "reach" /\ pc' = "reach" /\ work_queue # <<>>) =>
        /\ Len(work_queue') >= Len(work_queue) - 1
        /\ SubSeq(work_queue', 1, Len(work_queue) - 1) = Tail(work_queue)
        /\ \A i, j \in DOMAIN Pushed : Pushed[i] = Pushed[j] => i = j
        /\ {ItemOf(Pushed[i]) : i \in DOMAIN Pushed}
               = Items(all_uses') \ Items(all_uses)
        /\ Items(all_uses) \subseteq Items(all_uses')

C30_BoundedWork == [](QueuedSeedOrLive) /\ [][PushedOnce]_vars

\* the loop is running with a selected function queued a second time, by the
\* loop body, behind an item that is no seed
C30_Witness ==
    /\ pc = "reach"
    /\ \E i, j \in DOMAIN work_queue :
          /\ i < j
          /\ work_queue[i] \notin SeedItems
          /\ work_queue[j] \in SeedItems
          /\ ItemOf(work_queue[j]) \in Items(all_uses)
    /\ Len(funcs) = 1

====
